---- MODULE Spec2Model ----
(***************************************************************************)
(* Model of roam_mcp/content.py: the level-by-level creation of an outline *)
(* in the Roam store by create_page, create_block, create_outline,         *)
(* import_markdown (one batch write per level) and by create_nested_blocks *)
(* (one write per block, children by a recursive call).                    *)
(*                                                                         *)
(* The store (roam_mcp.api) is a collaborator outside content.py: a write  *)
(* either raises, or returns a response that signals failure, signals      *)
(* success without identifiers, or carries 'created_uids'.                 *)
(*                                                                         *)
(* The lookups that resolve the target page and the parent block are one   *)
(* step that either fails or yields the root parent. The single-line       *)
(* branch of create_block (one block, no level loop) is not modelled.      *)
(***************************************************************************)
EXTENDS Integers, Sequences, FiniteSets, TLC

\* ------------------------------------------------------------------ bounds
MaxNodes == 3          \* nodes of one input outline
MaxLevel == 2          \* largest level a node may name
MaxPairNodes == 2      \* nodes of each outline when two calls run side by side

\* ------------------------------------------------------- program constants
Sentinel == -1         \* the key of the root parent in every level table
MaxHeading == 3        \* the largest heading_level a request carries

\* -------------------------------------------------------------- identifiers
\* Three identifier spaces: the root parent of the call, identifiers the
\* client generates (str(uuid.uuid4())[:9]) and identifiers the store returns.
RootUid == [kind |-> "root", n |-> 0]
LocalUid(n) == [kind |-> "local", n |-> n]
StoreUid(n) == [kind |-> "store", n |-> n]

Range(s) == {s[i] : i \in 1..Len(s)}

Front(s) == SubSeq(s, 1, Len(s) - 1)

\* ------------------------------------------------------------------ inputs
BatchEntries == {"create_page", "create_block", "create_outline", "import_markdown"}
Entries == BatchEntries \cup {"create_nested_blocks"}

\* Levels a caller may write: create_page validates level >= 0 and
\* create_outline only isinstance(level, int), so both can be handed -1.
CallerLevels == Sentinel..MaxLevel
\* Levels parse_markdown_list derives from indentation.
ParsedLevels == 0..MaxLevel

\* The text of a node is the empty string, some text "a", or NoText:
\* item.get("text") of an item without a text.
NoText == "none"

\* What a node says of itself: 'level' absent, an integer, or not an integer
\* (int_level FALSE), its text, and its heading_level (0 when it names none:
\* item.get("heading_level", 0)).
Heads(Lv, Tx, with_absent, with_non_int) ==
    { [has_level |-> TRUE, int_level |-> TRUE, level |-> l, text |-> t, heading |-> 0] :
        l \in Lv, t \in Tx }
    \cup (IF with_absent
          THEN { [has_level |-> FALSE, int_level |-> TRUE, level |-> 0, text |-> t,
                  heading |-> 0] : t \in Tx }
          ELSE {})
    \cup (IF with_non_int
          THEN { [has_level |-> TRUE, int_level |-> FALSE, level |-> 0, text |-> t,
                  heading |-> 0] : t \in Tx }
          ELSE {})

\* The heading_level values a node may name besides 0: the smallest and the
\* largest that are carried, and the first that is not.
HeadingRanks == {1, MaxHeading, MaxHeading + 1}

\* A node with a heading_level: at the top level, either by naming level 0 or
\* by naming no level.
WithHeading(has_level) ==
    { [has_level |-> has_level, int_level |-> TRUE, level |-> 0, text |-> "a",
       heading |-> h] : h \in HeadingRanks }

\* create_page content: a node with some text and any level, or with an
\* empty text and no level of its own
PageHeads ==
    Heads(CallerLevels, {"a"}, TRUE, TRUE) \cup Heads({}, {""}, TRUE, FALSE)
    \cup WithHeading(FALSE)
\* create_nested_blocks blocks_data: text and level are read without a check
BlockHeads == Heads(CallerLevels, {"a"}, TRUE, FALSE) \cup WithHeading(FALSE)
\* create_outline items: an item with some text and any level (a missing
\* level is not an integer), or one at level 0 without a text
OutlineHeads ==
    Heads(CallerLevels, {"a"}, FALSE, TRUE) \cup Heads({0}, {"", NoText}, FALSE, FALSE)
    \cup WithHeading(TRUE)
\* the items parse_markdown_list yields
ParsedHeads == Heads(ParsedLevels, {"a"}, FALSE, FALSE) \cup WithHeading(TRUE)

\* Nested content: a sequence of nodes
\* [has_level, int_level, level, text, heading, children].
RECURSIVE Forests(_, _)
Forests(n, H) ==
    IF n = 0 THEN {<<>>}
    ELSE UNION { { <<[has_level |-> h.has_level, int_level |-> h.int_level,
                      level |-> h.level, text |-> h.text, heading |-> h.heading,
                      children |-> c]>> \o rest :
                     h \in H,
                     c \in Forests(k, H),
                     rest \in Forests(n - 1 - k, H) } : k \in 0..(n - 1) }

ForestsUpTo(n, H) == UNION { Forests(k, H) : k \in 0..n }

\* Flat outlines: a sequence of items [node, level, int_level, text, heading]; node is
\* the position of the item in the input.
FlatOutlines(H) ==
    UNION { { [i \in 1..n |-> [node |-> i, level |-> hs[i].level,
                               int_level |-> hs[i].int_level, text |-> hs[i].text,
                               heading |-> hs[i].heading]] :
                hs \in [1..n -> H] }
            : n \in 0..MaxNodes }

\* ------------------------------------------------ create_page: validation
\* validate_item: TRUE iff an error string is returned for the item.
RECURSIVE validate_item(_, _)
RECURSIVE validate_children(_, _)
validate_item(item, parent_level) ==
    LET level == IF item.has_level THEN item.level ELSE parent_level + 1
    IN  IF item.text = NoText THEN TRUE
        ELSE IF ~item.int_level THEN TRUE
        ELSE IF level < 0 THEN TRUE
        ELSE validate_children(item.children, level)

validate_children(children, level) ==
    IF children = <<>> THEN FALSE
    ELSE IF validate_item(Head(children), level) THEN TRUE
    ELSE validate_children(Tail(children), level)

\* the loop 'for item in content: error = validate_item(item, -1)'
RECURSIVE validate_content(_)
validate_content(content) ==
    IF content = <<>> THEN FALSE
    ELSE IF validate_item(Head(content), Sentinel) THEN TRUE
    ELSE validate_content(Tail(content))

\* ------------------------------------------------- create_page: flattening
\* flatten_content with the fault of emitting a node after its children
RECURSIVE flatten_content_children_first(_, _)
flatten_content_children_first(items, parent_level) ==
    IF items = <<>> THEN <<>>
    ELSE LET item == Head(items)
             level == IF item.has_level THEN item.level ELSE parent_level + 1
         IN  flatten_content_children_first(item.children, level)
             \o <<[text |-> item.text, level |-> level, heading |-> item.heading]>>
             \o flatten_content_children_first(Tail(items), parent_level)

RECURSIVE flatten_content(_, _)
flatten_content(items, parent_level) ==
    IF items = <<>> THEN <<>>
    ELSE LET item == Head(items)
             level == IF item.has_level THEN item.level ELSE parent_level + 1
         IN  <<[text |-> item.text, level |-> level, heading |-> item.heading]>>
             \o flatten_content(item.children, level)
             \o flatten_content(Tail(items), parent_level)

\* the flattened list with each entry named by its position of emission
Flattened(content) ==
    LET f == flatten_content(content, Sentinel)
    IN  [i \in 1..Len(f) |-> [node |-> i, level |-> f[i].level, text |-> f[i].text,
                               heading |-> f[i].heading]]

\* ---------------------------------------------------- sorting and grouping
\* InsertByLevel with the fault of an unstable sort: ahead of the equal levels
RECURSIVE InsertByLevel_unstable(_, _)
InsertByLevel_unstable(sorted, x) ==
    IF sorted = <<>> THEN <<x>>
    ELSE IF Head(sorted).level < x.level
         THEN <<Head(sorted)>> \o InsertByLevel_unstable(Tail(sorted), x)
         ELSE <<x>> \o sorted

\* list.sort(key=level): a stable sort, here by insertion from the left.
RECURSIVE InsertByLevel(_, _)
InsertByLevel(sorted, x) ==
    IF sorted = <<>> THEN <<x>>
    ELSE IF Head(sorted).level <= x.level
         THEN <<Head(sorted)>> \o InsertByLevel(Tail(sorted), x)
         ELSE <<x>> \o sorted

RECURSIVE SortByLevel(_)
SortByLevel(s) ==
    IF s = <<>> THEN <<>>
    ELSE InsertByLevel(SortByLevel(Front(s)), s[Len(s)])

\* BucketOf with the fault of taking one node per write
BucketOf_first(s, level) == SubSeq(SelectSeq(s, LAMBDA x : x.level = level), 1, 1)

\* level_items: level -> the items of that level, in list order
BucketOf(s, level) == SelectSeq(s, LAMBDA x : x.level = level)

GroupByLevel(s) == [l \in {s[i].level : i \in 1..Len(s)} |-> BucketOf(s, l)]

\* sorted(level_items.keys())
RECURSIVE SortedSeq(_)
SortedSeq(S) ==
    IF S = {} THEN <<>>
    ELSE LET m == CHOOSE x \in S : \A y \in S : x <= y
         IN  <<m>> \o SortedSeq(S \ {m})

\* SortedLevels with the fault of iterating the keys in descending order
RECURSIVE DescendingSeq(_)
DescendingSeq(S) ==
    IF S = {} THEN <<>>
    ELSE LET m == CHOOSE x \in S : \A y \in S : x >= y
         IN  <<m>> \o DescendingSeq(S \ {m})

SortedLevels_descending(level_items) == DescendingSeq(DOMAIN level_items)

SortedLevels(level_items) == SortedSeq(DOMAIN level_items)

\* ------------------------------------------------------- parent resolution
\* dict.get(key, default)
Get(table, key, default) == IF key \in DOMAIN table THEN table[key] ELSE default

\* create_page, create_block, import_markdown, create_nested_blocks:
\* 'parent_level = level - 1; if parent_level < -1: parent_level = -1'
ClampedParentLevel(level) == IF level - 1 < Sentinel THEN Sentinel ELSE level - 1

ParentByTable(level, table, root) == Get(table, ClampedParentLevel(level), root)

\* create_outline
ParentInOutline(level, table, root, level_items) ==
    LET parent_level == level - 1
    IN  IF parent_level < 0 THEN root
        ELSE LET parent_index == Len(Get(level_items, parent_level, <<>>)) - 1
             IN  IF parent_index >= 0 /\ parent_level \in DOMAIN table
                 THEN table[parent_level]
                 ELSE root

ParentFor(e, level, table, root, level_items) ==
    IF e = "create_outline" THEN ParentInOutline(level, table, root, level_items)
    ELSE ParentByTable(level, table, root)

\* LastUid with the fault of taking the first identifier, level_uids[0]
LastUid_first(level_uids) == level_uids[1]

\* the entry stored for a level once its batch has been built: level_uids[-1]
LastUid(level_uids) == level_uids[Len(level_uids)]

\* ---------------------------------------------------------- store responses
RaiseResp == [kind |-> "raise", ids |-> <<>>]
FailResp == [kind |-> "fail", ids |-> <<>>]
OkResp == [kind |-> "ok", ids |-> <<>>]
IdsResp(ids) == [kind |-> "ids", ids |-> ids]

StoreIdsFor(level_uids) == [i \in 1..Len(level_uids) |-> StoreUid(level_uids[i].n)]

\* what execute_write_action can answer to a batch carrying level_uids
Responses(level_uids) ==
    {RaiseResp, FailResp, OkResp,
     IdsResp(StoreIdsFor(level_uids)),
     IdsResp(Front(StoreIdsFor(level_uids)))}

\* identifiers the answer confirms as created: the ones it lists, or the ones
\* of the requests when it only signals success
CreatedInStore(resp, level_uids) ==
    IF resp.kind = "ok" THEN Range(level_uids)
    ELSE IF resp.kind = "ids" THEN Range(resp.ids)
    ELSE {}

\* Reconcile with the fault of keeping the local identifiers when the store returned its own
Reconcile_local(resp, level_uids) ==
    IF resp.kind \in {"ids", "ok"} THEN level_uids ELSE <<>>

\* what the loop appends to created_uids for one answered batch
Reconcile(resp, level_uids) ==
    IF resp.kind = "ids" THEN resp.ids
    ELSE IF resp.kind = "ok" THEN level_uids
    ELSE <<>>

\* ------------------------------------------------------------------ results
\* 'why' names the kind of the error message of a failure record.
NoResult == [success |-> FALSE, has_error |-> FALSE, has_created |-> FALSE,
             created_uids |-> <<>>, why |-> "none"]
\* {"success": False, "error": str(e)} of the except branches, or of a failed lookup
ErrorResult == [success |-> FALSE, has_error |-> TRUE, has_created |-> FALSE,
                created_uids |-> <<>>, why |-> "exception"]
\* {"success": False, "error": ...} of a check of the arguments
\* ("Title is required", "Content cannot be empty", "Order must be 'first' or 'last'")
ArgumentResult == [ErrorResult EXCEPT !.why = "argument"]
\* {"success": False, "error": ...} of the validation of the outline
\* ("Outline cannot be empty", "All outline items must have text and a valid level",
\*  "Invalid content structure - ...")
ValidationResult == [ErrorResult EXCEPT !.why = "validation"]
\* {"success": False, "error": f"Block with UID {...} not found"}
NotFoundResult == [ErrorResult EXCEPT !.why = "not_found"]
\* {"success": False, "error": "Failed to parse ..."}
ParseResult == [ErrorResult EXCEPT !.why = "parse"]
\* {"success": True, ..., "created_uids": created_uids}
SuccessResult(created) == [success |-> TRUE, has_error |-> FALSE, has_created |-> TRUE,
                           created_uids |-> created, why |-> "none"]
\* EmptyBlocksResult with the fault of rejecting an empty blocks_data
EmptyBlocksResult_rejected == ValidationResult

\* {"success": True, "created_uids": []} of create_nested_blocks without blocks
EmptyBlocksResult == SuccessResult(<<>>)
\* {"success": True, "uid": page_uid, "page_url": ...}
PageOnlyResult == [success |-> TRUE, has_error |-> FALSE, has_created |-> FALSE,
                   created_uids |-> <<>>, why |-> "none"]
\* {"success": False, "error": ..., "created_uids": created_uids}
PartialResult(created) == [success |-> FALSE, has_error |-> TRUE, has_created |-> TRUE,
                           created_uids |-> created, why |-> "exception"]

\* ------------------------------------------------------------------- state
VARIABLES
    entry,          \* the entry point invoked
    title_ok,       \* the required string argument (title / content) is non-empty
    content,        \* nested input: create_page content, create_nested_blocks blocks_data
    outline,        \* flat input: outline, or the parser's output
    order,          \* import_markdown: the order argument
    pc,             \* position of the call
    items,          \* the list the grouping loop reads (flattened and sorted where the code sorts)
    level_items,    \* level -> items of that level
    levels,         \* sorted(level_items.keys())
    li,             \* index in levels of the level being processed
    table,          \* level_parent_map / current_level_parents
    level_uids,     \* identifiers generated for the batch in flight
    created_uids,   \* created_uids of the call
    stack,          \* create_nested_blocks: the frames of the recursion, innermost last
    log,            \* history: every write submitted, with the table it was built from and its answer
    storeCreated,   \* identifiers of the outline nodes the store holds
    nextUid,        \* source of fresh local identifiers
    touched,        \* a collaborator that reads or writes the store has been called
    result,         \* the returned record, once pc = "done"
    pageCreated,    \* the call has made the store create a page
    calls           \* two calls running side by side: the locals of each

vars == <<entry, title_ok, content, outline, order, pc, items, level_items, levels, li, table,
          level_uids, created_uids, stack, log, storeCreated, nextUid, touched, result, pageCreated,
          calls>>

callVars == <<entry, title_ok, content, outline, order, calls>>
loopVars == <<items, level_items, levels, li, table, level_uids, created_uids>>

\* the values of 'order' import_markdown accepts
Orders == {"first", "last"}

EmptyTable == [l \in {} |-> RootUid]
RootTable == [l \in {Sentinel} |-> RootUid]

\* no second call is running
NoCalls == <<>>

Init ==
    /\ entry \in Entries
    /\ title_ok \in BOOLEAN
    /\ content \in (IF entry = "create_page" THEN ForestsUpTo(MaxNodes, PageHeads)
                    ELSE IF entry = "create_nested_blocks"
                         THEN ForestsUpTo(MaxNodes, BlockHeads)
                         ELSE {<<>>})
    /\ outline \in (IF entry = "create_outline" THEN FlatOutlines(OutlineHeads)
                    ELSE IF entry \in {"create_block", "import_markdown"}
                         THEN FlatOutlines(ParsedHeads)
                         ELSE {<<>>})
    /\ order \in (IF entry = "import_markdown" THEN Orders \cup {"other"} ELSE {"last"})
    \* an empty required argument is rejected whatever the rest is
    /\ ~title_ok => (content = <<>> /\ outline = <<>> /\ order = "last")
    /\ order = "other" => outline = <<>>
    /\ entry \in {"create_outline", "create_nested_blocks"} => title_ok
    /\ pc = "start"
    /\ items = <<>>
    /\ level_items = EmptyTable
    /\ levels = <<>>
    /\ li = 1
    /\ table = EmptyTable
    /\ level_uids = <<>>
    /\ created_uids = <<>>
    /\ stack = <<>>
    /\ log = <<>>
    /\ storeCreated = {}
    /\ nextUid = 1
    /\ touched = FALSE
    /\ result = NoResult
    /\ pageCreated = FALSE
    /\ calls = NoCalls

Return(r) == /\ pc' = "done"
             /\ result' = r

\* an exception raised outside every try block leaves the call without a result
Crash == /\ pc' = "crashed"
         /\ UNCHANGED result

\* --------------------------------------------------------- batch entry points
\* create_outline: [item for item in outline
\*                  if not item.get("text") or not isinstance(item.get("level"), int)]
invalid_items(o) == SelectSeq(o, LAMBDA item : item.text \in {NoText, ""} \/ ~item.int_level)

\* The argument checks ahead of the try block, then get_session_and_headers().
Begin ==
    /\ pc = "start"
    /\ entry \in BatchEntries
    /\ UNCHANGED <<callVars, pageCreated, loopVars, stack, log, storeCreated, nextUid, touched>>
    /\ IF entry = "create_outline"
       THEN \* 'if not outline', then 'if invalid_items'
            IF outline = <<>> THEN Return(ValidationResult)
            ELSE IF invalid_items(outline) # <<>> THEN Return(ValidationResult)
            ELSE \/ (pc' = "resolve" /\ UNCHANGED result)
                 \/ Crash
       ELSE \* 'if not title' / 'if not content', 'if order not in ["first", "last"]'
            IF ~title_ok THEN Return(ArgumentResult)
            ELSE IF order \notin Orders THEN Return(ArgumentResult)
            ELSE \/ (pc' = "resolve" /\ UNCHANGED result)
                 \/ Crash

\* the list the grouping loop of the entry point reads
LoopInput ==
    IF entry = "create_page" THEN SortByLevel(Flattened(content))
    ELSE IF entry = "import_markdown" THEN SortByLevel(outline)
    ELSE outline

\* Inside the try block: the target page and parent are resolved through the
\* store, the input is validated, parsed, flattened, sorted and grouped.
Resolve ==
    /\ pc = "resolve"
    /\ UNCHANGED <<callVars, level_uids, created_uids, stack, log, storeCreated, nextUid>>
    \* create_page calls find_or_create_page and create_outline find_page_by_title
    \* or get_daily_page; create_block and import_markdown go to the store only
    \* for a page title, the daily page or a parent block
    /\ touched' \in (IF entry \in {"create_page", "create_outline"} THEN {TRUE} ELSE BOOLEAN)
    \* find_or_create_page finds the page of the title or creates it (a page
    \* named by uid is not looked up)
    /\ pageCreated' \in BOOLEAN
    /\ pageCreated' => touched'
    /\ \/ \* a collaborator raises
          /\ Return(ErrorResult)
          /\ UNCHANGED <<items, level_items, levels, li, table>>
       \/ \* the caller names a parent block by uid and execute_query, called
          \* after the page has been resolved, finds no such block
          /\ entry \in {"create_outline", "import_markdown"}
          /\ touched'
          /\ Return(NotFoundResult)
          /\ UNCHANGED <<items, level_items, levels, li, table>>
       \/ IF entry = "create_page" /\ content = <<>>
          THEN /\ Return(PageOnlyResult)
               /\ UNCHANGED <<items, level_items, levels, li, table>>
          ELSE IF entry = "create_page" /\ validate_content(content)
          THEN /\ Return(ValidationResult)
               /\ UNCHANGED <<items, level_items, levels, li, table>>
          ELSE IF entry \in {"create_block", "import_markdown"} /\ outline = <<>>
          THEN \* 'if not parsed_content'
               /\ Return(ParseResult)
               /\ UNCHANGED <<items, level_items, levels, li, table>>
          ELSE /\ items' = LoopInput
               /\ level_items' = GroupByLevel(LoopInput)
               /\ levels' = SortedLevels(GroupByLevel(LoopInput))
               /\ li' = 1
               /\ table' = RootTable
               /\ pc' = "loop"
               /\ UNCHANGED result

\* the requests built for the bucket of one level
\* OrderFor with the fault of passing the order argument on at every level
OrderFor_everywhere(e, level, ord) == IF e = "import_markdown" THEN ord ELSE "last"

\* "order": order if level == 0 else "last" in import_markdown, "last" elsewhere
OrderFor(e, level, ord) == IF e = "import_markdown" /\ level = 0 THEN ord ELSE "last"

\* 'if heading_level and heading_level > 0 and heading_level <= 3:
\*      action["block"]["heading"] = heading_level'
\* create_outline builds its action without reading heading_level.
HasHeading(e, heading_level) ==
    e # "create_outline" /\ heading_level # 0 /\ heading_level > 0 /\ heading_level <= MaxHeading

\* A request names the node it is for and that node's heading_level (node,
\* rank: history); has_heading says whether block.heading is set.
BuildRequests(e, level, bucket, tbl, lvl_items, first, root, ord) ==
    [i \in 1..Len(bucket) |->
        [parent |-> ParentFor(e, level, tbl, root, lvl_items),
         uid |-> LocalUid(first + i - 1),
         node |-> bucket[i].node,
         text |-> bucket[i].text,
         order |-> OrderFor(e, level, ord),
         rank |-> bucket[i].heading,
         has_heading |-> HasHeading(e, bucket[i].heading),
         heading |-> IF HasHeading(e, bucket[i].heading) THEN bucket[i].heading ELSE 0]]

BuildBatch(e, level, bucket, tbl, lvl_items, first) ==
    BuildRequests(e, level, bucket, tbl, lvl_items, first, RootUid, order)

\* UidsOf with the fault of collecting the identifiers in reverse
UidsOf_reversed(batch) == [i \in 1..Len(batch) |-> batch[Len(batch) + 1 - i].uid]

\* level_uids: 'level_uids.append(block_uid)' for every item of the bucket
UidsOf(batch) == [i \in 1..Len(batch) |-> batch[i].uid]

\* import_markdown, inside the item loop:
\* 'if level in level_parent_map: level_parent_map[level] = block_uid'
TableAfterBuild(e, level, tbl, uids) ==
    IF e = "import_markdown" /\ level \in DOMAIN tbl /\ uids # <<>>
    THEN [tbl EXCEPT ![level] = LastUid(uids)]
    ELSE tbl

\* One iteration of 'for level in sorted(level_items.keys())' up to the call
\* of execute_write_action(batch).
Submit ==
    /\ pc = "loop"
    /\ li <= Len(levels)
    /\ LET level == levels[li]
           batch == BuildBatch(entry, level, level_items[level], table, level_items, nextUid)
       IN  /\ batch # <<>>
           /\ level_uids' = UidsOf(batch)
           /\ nextUid' = nextUid + Len(batch)
           /\ table' = TableAfterBuild(entry, level, table, UidsOf(batch))
           /\ log' = Append(log, [level |-> level, reqs |-> batch, table |-> table,
                                  depth |-> 0, resp |-> [kind |-> "pending", ids |-> <<>>],
                                  settled |-> FALSE])
    /\ pc' = "inflight"
    /\ touched' = TRUE
    /\ UNCHANGED <<callVars, pageCreated, items, level_items, levels, li, created_uids, stack,
                   storeCreated, result>>

\* 'level_parent_map[level] = level_uids[-1]' after the answer
TableAfterAnswer(e, level, tbl, uids) ==
    IF e # "import_markdown" /\ uids # <<>>
    THEN [l \in DOMAIN tbl \cup {level} |-> IF l = level THEN LastUid(uids) ELSE tbl[l]]
    ELSE tbl

\* execute_write_action answers; the rest of the iteration up to time.sleep.
Answer ==
    /\ pc = "inflight"
    /\ \E resp \in Responses(level_uids) :
        /\ log' = [log EXCEPT ![Len(log)].resp = resp]
        /\ storeCreated' = storeCreated \cup CreatedInStore(resp, level_uids)
        /\ IF resp.kind = "raise"
           THEN \* every except branch returns {"success": False, "error": str(e)}
                /\ Return(ErrorResult)
                /\ UNCHANGED <<created_uids, table>>
           ELSE /\ created_uids' = created_uids \o Reconcile(resp, level_uids)
                /\ table' = TableAfterAnswer(entry, levels[li], table, level_uids)
                /\ pc' = "sleep"
                /\ UNCHANGED result
    /\ UNCHANGED <<callVars, pageCreated, items, level_items, levels, li, level_uids, stack, nextUid,
                   touched>>

\* Slept with the fault of going on without the wait
Slept_skipped(lg) == lg

\* time.sleep(0.5) has returned after the last batch submitted (history)
Slept(lg) == [lg EXCEPT ![Len(lg)].settled = TRUE]

\* time.sleep(0.5), then the next level
Settle ==
    /\ pc = "sleep"
    /\ pc' = "loop"
    /\ li' = li + 1
    /\ log' = Slept(log)
    /\ UNCHANGED <<callVars, pageCreated, items, level_items, levels, table, level_uids, created_uids,
                   stack, storeCreated, nextUid, touched, result>>

\* the return after the loop
Finish ==
    /\ pc = "loop"
    /\ li > Len(levels)
    /\ Return(SuccessResult(created_uids))
    /\ UNCHANGED <<callVars, pageCreated, loopVars, stack, log, storeCreated, nextUid, touched>>

\* ------------------------------------------------------- create_nested_blocks
\* One frame per active invocation of create_nested_blocks.
Frame(parent_uid, blocks_data) ==
    [parent |-> parent_uid, blocks |-> blocks_data, i |-> 1,
     table |-> [l \in {Sentinel} |-> parent_uid], created |-> <<>>]

Top == stack[Len(stack)]

\* block.get("level", 0)
BlockLevel(block) == IF block.has_level THEN block.level ELSE 0

\* what execute_write_action can answer to the single action of one block
BlockResponses == {RaiseResp, FailResp, OkResp}

\* level_to_uid[level] = block_uid
TableWith(tbl, level, uid) ==
    [l \in DOMAIN tbl \cup {level} |-> IF l = level THEN uid ELSE tbl[l]]

\* what the caller keeps of the result of the recursive call for the children
KeptFromChildren(children_result) ==
    IF children_result.success THEN children_result.created_uids ELSE <<>>

\* CallerTable with the fault of one level_to_uid shared by the recursion
CallerTable_shared(caller, callee) == callee.table

\* level_to_uid of the caller when the recursive call has returned: a local
\* of the caller's invocation, which the callee cannot reach
CallerTable(caller, callee) == caller.table

\* The innermost invocation returns r: to the caller of the entry point, or to
\* the invocation that called it, which then goes on to its time.sleep.
ReturnFrame(stk, r) ==
    IF Len(stk) = 1
    THEN /\ stack' = <<>>
         /\ Return(r)
    ELSE /\ stack' = [Front(stk) EXCEPT ![Len(stk) - 1].created =
                          @ \o KeptFromChildren(r),
                                       ![Len(stk) - 1].table =
                          CallerTable(stk[Len(stk) - 1], stk[Len(stk)])]
         /\ pc' = "nb_sleep"
         /\ UNCHANGED result

\* 'if not blocks_data', then get_session_and_headers() ahead of the try block
NB_Begin ==
    /\ pc = "start"
    /\ entry = "create_nested_blocks"
    /\ UNCHANGED <<callVars, pageCreated, loopVars, log, storeCreated, nextUid, touched>>
    /\ IF content = <<>>
       THEN /\ Return(EmptyBlocksResult)
            /\ UNCHANGED stack
       ELSE \/ /\ stack' = <<Frame(RootUid, content)>>
               /\ pc' = "nb_loop"
               /\ UNCHANGED result
            \/ /\ Crash
               /\ UNCHANGED stack

\* one iteration of 'for block in blocks_data' up to execute_write_action
NB_Submit ==
    /\ pc = "nb_loop"
    /\ Top.i <= Len(Top.blocks)
    /\ LET block == Top.blocks[Top.i]
           level == BlockLevel(block)
           req == [parent |-> ParentByTable(level, Top.table, Top.parent),
                   uid |-> LocalUid(nextUid), node |-> Top.i, text |-> block.text,
                   order |-> "last", rank |-> block.heading,
                   has_heading |-> HasHeading(entry, block.heading),
                   heading |-> IF HasHeading(entry, block.heading) THEN block.heading ELSE 0]
       IN  /\ log' = Append(log, [level |-> level, reqs |-> <<req>>, table |-> Top.table,
                                  depth |-> Len(stack),
                                  resp |-> [kind |-> "pending", ids |-> <<>>]])
           /\ level_uids' = <<req.uid>>
    /\ nextUid' = nextUid + 1
    /\ pc' = "nb_inflight"
    /\ touched' = TRUE
    /\ UNCHANGED <<callVars, pageCreated, items, level_items, levels, li, table, created_uids, stack,
                   storeCreated, result>>

\* the answer to the write of one block, and what follows it in the iteration
NB_Answer ==
    /\ pc = "nb_inflight"
    /\ UNCHANGED <<callVars, pageCreated, loopVars, nextUid, touched>>
    /\ \E resp \in BlockResponses :
        LET block == Top.blocks[Top.i]
            level == BlockLevel(block)
            block_uid == level_uids[1]
            recorded == [stack EXCEPT ![Len(stack)].created = Append(@, block_uid),
                                      ![Len(stack)].table = TableWith(@, level, block_uid)]
        IN  /\ log' = [log EXCEPT ![Len(log)].resp = resp]
            /\ storeCreated' = storeCreated \cup CreatedInStore(resp, level_uids)
            /\ IF resp.kind = "raise"
               THEN \* except Exception: the partial result of this invocation
                    ReturnFrame(stack, PartialResult(Top.created))
               ELSE IF resp.kind = "fail"
               THEN \* logger.error, then the next block
                    /\ stack' = [stack EXCEPT ![Len(stack)].i = @ + 1]
                    /\ pc' = "nb_loop"
                    /\ UNCHANGED result
               ELSE IF block.children = <<>>
               THEN /\ stack' = recorded
                    /\ pc' = "nb_sleep"
                    /\ UNCHANGED result
               ELSE \* create_nested_blocks(block_uid, children)
                    \/ /\ stack' = Append(recorded, Frame(block_uid, block.children))
                       /\ pc' = "nb_loop"
                       /\ UNCHANGED result
                    \/ \* its get_session_and_headers() raises into this invocation's try
                       ReturnFrame(recorded, PartialResult(recorded[Len(recorded)].created))

\* time.sleep(0.5), then the next block
NB_Settle ==
    /\ pc = "nb_sleep"
    /\ stack' = [stack EXCEPT ![Len(stack)].i = @ + 1]
    /\ pc' = "nb_loop"
    /\ UNCHANGED <<callVars, pageCreated, loopVars, log, storeCreated, nextUid, touched, result>>

\* the return after the loop
NB_Finish ==
    /\ pc = "nb_loop"
    /\ Top.i > Len(Top.blocks)
    /\ ReturnFrame(stack, SuccessResult(Top.created))
    /\ UNCHANGED <<callVars, pageCreated, loopVars, log, storeCreated, nextUid, touched>>

Next ==
    \/ Begin
    \/ Resolve
    \/ Submit
    \/ Answer
    \/ Settle
    \/ Finish
    \/ NB_Begin
    \/ NB_Submit
    \/ NB_Answer
    \/ NB_Settle
    \/ NB_Finish

Spec == Init /\ [][Next]_vars

\* --------------------------------------------------- two calls side by side
\* Two invocations of create_page or create_outline on different parents whose
\* steps interleave. level_items, level_parent_map, level_uids and
\* created_uids are locals of the function body, one set per invocation; the
\* module holds no variable the loop writes. The invocations share the store
\* and the generator of identifiers.
Callers == 1..2

\* page_uid / parent_uid of caller c
RootOf(c) == [kind |-> "root", n |-> c]

PairEntries == {"create_page", "create_outline"}

\* the levels of the items of one call, in the order of the input
PairLevels == 0..(MaxPairNodes - 1)
PairInputs == UNION { [1..n -> PairLevels] : n \in 1..MaxPairNodes }

ItemsOf(lv) ==
    [i \in 1..Len(lv) |-> [node |-> i, level |-> lv[i], text |-> "a", heading |-> 0]]

\* the locals of an invocation that has validated its input
NewCall(e, lv) ==
    [entry |-> e,
     items |-> IF e = "create_page" THEN SortByLevel(ItemsOf(lv)) ELSE ItemsOf(lv),
     pc |-> "start", level_items |-> EmptyTable, levels |-> <<>>, li |-> 1,
     table |-> EmptyTable, level_uids |-> <<>>, created_uids |-> <<>>, log |-> <<>>,
     success |-> FALSE]

\* the variables of the single call stay as they are
singleVars == <<entry, title_ok, content, outline, order, pc, items, level_items, levels, li,
                table, level_uids, created_uids, stack, log, storeCreated, touched, result,
                pageCreated>>

PairInit ==
    /\ entry = "create_page"
    /\ title_ok = TRUE
    /\ content = <<>>
    /\ outline = <<>>
    /\ order = "last"
    /\ pc = "done"
    /\ items = <<>>
    /\ level_items = EmptyTable
    /\ levels = <<>>
    /\ li = 1
    /\ table = EmptyTable
    /\ level_uids = <<>>
    /\ created_uids = <<>>
    /\ stack = <<>>
    /\ log = <<>>
    /\ storeCreated = {}
    /\ nextUid = 1
    /\ touched = FALSE
    /\ result = NoResult
    /\ pageCreated = FALSE
    /\ calls \in [Callers -> {NewCall(e, lv) : e \in PairEntries, lv \in PairInputs}]

\* TableSeenBy with the fault of one table kept at module level
TableSeenBy_shared(cs, c) == cs[1].table

\* level_parent_map as caller c reads and writes it: a local of its invocation
TableSeenBy(cs, c) == cs[c].table

\* caller c groups its items and creates its table
PStart(c) ==
    /\ calls[c].pc = "start"
    /\ LET me == calls[c]
       IN  calls' = [calls EXCEPT ![c] =
                        [me EXCEPT !.level_items = GroupByLevel(me.items),
                                   !.levels = SortedLevels(GroupByLevel(me.items)),
                                   !.table = [l \in {Sentinel} |-> RootOf(c)],
                                   !.pc = "loop"]]
    /\ UNCHANGED <<singleVars, nextUid>>

\* caller c builds the batch of its next level and calls execute_write_action
PSubmit(c) ==
    /\ calls[c].pc = "loop"
    /\ calls[c].li <= Len(calls[c].levels)
    /\ LET me == calls[c]
           level == me.levels[me.li]
           batch == BuildRequests(me.entry, level, me.level_items[level], TableSeenBy(calls, c),
                                  me.level_items, nextUid, RootOf(c), "last")
       IN  /\ calls' = [calls EXCEPT ![c] =
                           [me EXCEPT !.level_uids = UidsOf(batch),
                                      !.log = Append(me.log,
                                                 [level |-> level, reqs |-> batch,
                                                  resp |-> [kind |-> "pending", ids |-> <<>>]]),
                                      !.pc = "inflight"]]
           /\ nextUid' = nextUid + Len(batch)
    /\ UNCHANGED singleVars

\* the write of caller c answers
PAnswer(c) ==
    /\ calls[c].pc = "inflight"
    /\ LET me == calls[c]
       IN  \E resp \in Responses(me.level_uids) :
               calls' = [calls EXCEPT ![c] =
                   IF resp.kind = "raise"
                   THEN [me EXCEPT !.log[Len(me.log)].resp = resp, !.pc = "done"]
                   ELSE [me EXCEPT !.log[Len(me.log)].resp = resp,
                                   !.created_uids = @ \o Reconcile(resp, me.level_uids),
                                   !.table = TableAfterAnswer(me.entry, me.levels[me.li],
                                                              TableSeenBy(calls, c),
                                                              me.level_uids),
                                   !.pc = "sleep"]]
    /\ UNCHANGED <<singleVars, nextUid>>

\* time.sleep(0.5) of caller c
PSettle(c) ==
    /\ calls[c].pc = "sleep"
    /\ calls' = [calls EXCEPT ![c].pc = "loop", ![c].li = @ + 1]
    /\ UNCHANGED <<singleVars, nextUid>>

\* caller c returns after its loop
PFinish(c) ==
    /\ calls[c].pc = "loop"
    /\ calls[c].li > Len(calls[c].levels)
    /\ calls' = [calls EXCEPT ![c].pc = "done", ![c].success = TRUE]
    /\ UNCHANGED <<singleVars, nextUid>>

PairNext ==
    \/ \E c \in Callers : PStart(c)
    \/ \E c \in Callers : PSubmit(c)
    \/ \E c \in Callers : PAnswer(c)
    \/ \E c \in Callers : PSettle(c)
    \/ \E c \in Callers : PFinish(c)

PairSpec == PairInit /\ [][PairNext]_vars


\* =================================================================== claims
\* Helpers over the history of writes.
ReqUids(e) == [k \in 1..Len(e.reqs) |-> e.reqs[k].uid]

Answered(e) == e.resp.kind # "pending"

Failed(e) == e.resp.kind \in {"fail", "raise"}

\* the identifiers of a bucket whose batch succeeded: the store's, else the local ones
BucketIds(e) == IF e.resp.kind = "ids" THEN e.resp.ids ELSE ReqUids(e)

RECURSIVE ConcatBucketIds(_, _)
ConcatBucketIds(lg, n) ==
    IF n = 0 THEN <<>> ELSE ConcatBucketIds(lg, n - 1) \o BucketIds(lg[n])

\* the created_uids list of the returned record (empty when the key is absent)
ReturnedUids == IF result.has_created THEN result.created_uids ELSE <<>>

LevelsOfInput == {items[k].level : k \in 1..Len(items)}

\* C1: in a batch entry point, once the answer to a batch signals failure, no
\* batch of a greater depth is submitted: every batch but the last one in the
\* history was not answered with a failure response.
C1_NoBatchAfterFailure ==
    entry \in BatchEntries =>
        \A i \in 1..Len(log) : \A j \in 1..Len(log) :
            (i < j /\ log[i].level < log[j].level) => log[i].resp.kind # "fail"

\* C2: when a creation call signalled failure, the returned record has
\* success = false and an error; success = true only if every write succeeded.
C2_FailureIsReported ==
    pc = "done" =>
        ((\E i \in 1..Len(log) : Failed(log[i])) =>
            (~result.success /\ result.has_error))

\* C3: when the batch of depth k fails, the returned created_uids is exactly
\* the concatenation of the identifiers of the buckets below k.
C3_PartialIdsBelowFailure ==
    (pc = "done" /\ entry \in BatchEntries) =>
        \A k \in 1..Len(log) :
            (Failed(log[k]) /\ \A i \in 1..(k - 1) : ~Failed(log[i]))
                => ReturnedUids = ConcatBucketIds(log, k - 1)

\* C4: in create_page, multi-line create_block and create_outline every
\* request of depth 0 names the root parent, and every request of a depth
\* d >= 1 whose predecessor depth has a bucket names the identifier of the
\* last node of that bucket.
C4_LastSiblingIsParent ==
    entry \in {"create_page", "create_block", "create_outline"} =>
        \A i \in 1..Len(log) :
            LET d == log[i].level
            IN  /\ d = 0 => \A k \in 1..Len(log[i].reqs) : log[i].reqs[k].parent = RootUid
                /\ (d >= 1 /\ (d - 1) \in LevelsOfInput) =>
                       \E j \in 1..(i - 1) :
                           /\ log[j].level = d - 1
                           /\ \A k \in 1..Len(log[i].reqs) :
                                  log[i].reqs[k].parent = log[j].reqs[Len(log[j].reqs)].uid

\* a bucket of two nodes is followed by a batch of the next depth
C4_Witness ==
    /\ entry \in {"create_page", "create_block", "create_outline"}
    /\ \E i \in 1..Len(log) : \E j \in 1..Len(log) :
           /\ log[j].level + 1 = log[i].level
           /\ log[j].level >= 0
           /\ Len(log[j].reqs) >= 2
           /\ log[i].reqs[1].parent = log[j].reqs[2].uid

\* C5: with a depth gap, the parent of the depth-d nodes is the table entry of
\* the nearest lower depth that has one (the root only when none has).
NearestLower(tbl, d) ==
    CHOOSE k \in DOMAIN tbl : k < d /\ \A m \in DOMAIN tbl : m < d => m <= k

C5_GapUsesNearestLower ==
    \A i \in 1..Len(log) :
        LET d == log[i].level
        IN  (d >= 1 /\ (d - 1) \notin DOMAIN log[i].table) =>
                \A k \in 1..Len(log[i].reqs) :
                    log[i].reqs[k].parent = log[i].table[NearestLower(log[i].table, d)]

\* C6: when the answer to the depth-d batch carries the store's identifiers,
\* the table entry of depth d is the last of them and the requests of depth
\* d+1 name it as parent.
C6_TableHoldsStoreId ==
    entry \in BatchEntries =>
        \A i \in 1..Len(log) :
            (log[i].resp.kind = "ids" /\ log[i].resp.ids # <<>>) =>
                LET last == log[i].resp.ids[Len(log[i].resp.ids)]
                IN  /\ log[i].level \in DOMAIN table
                    /\ table[log[i].level] = last
                    /\ \A j \in 1..Len(log) :
                           log[j].level = log[i].level + 1 =>
                               \A k \in 1..Len(log[j].reqs) : log[j].reqs[k].parent = last

\* C7: what each batch adds to created_uids is the store's identifiers when
\* the answer carries them, the batch's local identifiers in request order
\* when it only signals success, and nothing otherwise.
AppendedFor(e) ==
    IF e.resp.kind = "ids" THEN e.resp.ids
    ELSE IF e.resp.kind = "ok" THEN ReqUids(e)
    ELSE <<>>

RECURSIVE ConcatAppended(_, _)
ConcatAppended(lg, n) ==
    IF n = 0 THEN <<>> ELSE ConcatAppended(lg, n - 1) \o AppendedFor(lg[n])

C7_ReconciledIdsAppended ==
    entry \in BatchEntries => created_uids = ConcatAppended(log, Len(log))

\* one batch answered with store identifiers, one with bare success, one with failure
C7_Witness ==
    /\ entry \in BatchEntries
    /\ \E i \in 1..Len(log) : log[i].resp.kind = "ids" /\ Len(log[i].resp.ids) >= 2
    /\ \E i \in 1..Len(log) : log[i].resp.kind = "ok"
    /\ Len(created_uids) >= 3

\* C8: batches are submitted in strictly ascending depth order, one at a
\* time, each after the batches of all lower depths of the outline have
\* returned, and a request names as parent only the root or an identifier of
\* an earlier batch.
C8_AscendingOneAtATime ==
    entry \in BatchEntries =>
        \A j \in 1..Len(log) :
            /\ \A i \in 1..(j - 1) : log[i].level < log[j].level /\ Answered(log[i])
            /\ \A l \in LevelsOfInput :
                   l < log[j].level => \E i \in 1..(j - 1) : log[i].level = l
            /\ \A k \in 1..Len(log[j].reqs) :
                   \/ log[j].reqs[k].parent = RootUid
                   \/ \E i \in 1..(j - 1) : log[j].reqs[k].parent \in Range(ReqUids(log[i]))

\* a third batch is in flight after two lower depths were answered
C8_Witness ==
    /\ entry \in BatchEntries
    /\ Len(log) >= 3
    /\ pc = "inflight"
    /\ log[3].reqs[1].parent # RootUid

\* C9 as written: a call that entered its level loop has made, when it returns,
\* as many batch calls as the outline has distinct depths.
C9_CallsEqualDepths ==
    (pc = "done" /\ entry \in BatchEntries /\ levels # <<>>) =>
        Len(log) = Cardinality(LevelsOfInput)

\* C9 amended: every batch carries all the nodes of its depth and no depth is
\* submitted twice, so a call makes at most one batch call per distinct depth,
\* and exactly one per distinct depth when no write raises.
NodesAtLevel(l) == {k \in 1..Len(items) : items[k].level = l}

C9_OneBatchPerDepth ==
    entry \in BatchEntries =>
        /\ \A i \in 1..Len(log) :
               /\ {log[i].reqs[k].node : k \in 1..Len(log[i].reqs)}
                      = {items[k].node : k \in NodesAtLevel(log[i].level)}
               /\ Len(log[i].reqs) = Cardinality(NodesAtLevel(log[i].level))
               /\ \A j \in 1..Len(log) : log[j].level = log[i].level => i = j
        /\ Len(log) <= Cardinality(LevelsOfInput)
        /\ (pc = "done" /\ levels # <<>> /\ \A i \in 1..Len(log) : log[i].resp.kind # "raise")
               => Len(log) = Cardinality(LevelsOfInput)

\* three nodes on two depths were created by two batch calls
C9_Witness ==
    /\ pc = "done"
    /\ entry \in BatchEntries
    /\ result.success
    /\ Len(items) = 3
    /\ Len(log) = 2
    /\ Cardinality(LevelsOfInput) = 2

\* C10: every identifier of a node the store created during the call is in
\* the created_uids of the returned record.
C10_NoProgressDropped ==
    pc = "done" => storeCreated \subseteq Range(ReturnedUids)

\* C11: every invocation ends by returning a record; no failure of a
\* collaborator leaves the entry point as an exception.
C11_NoUncaughtException == pc # "crashed"

\* C12: a validation failure is returned before any store-touching
\* collaborator has been called.
C12_ValidationBeforeStore ==
    (pc = "done" /\ result.why = "validation") => ~touched

\* C13: create_page and create_outline build no creation request for a node
\* with an empty text or a negative depth.
C13_NoRequestForInvalidNode ==
    entry \in {"create_page", "create_outline"} =>
        \A i \in 1..Len(log) :
            /\ log[i].level >= 0
            /\ \A k \in 1..Len(log[i].reqs) : log[i].reqs[k].text # ""

\* C14 as written: an empty outline yields success = true with an empty
\* created_uids list and no store call.
EmptyInput ==
    \/ entry = "create_outline" /\ outline = <<>>
    \/ entry = "create_page" /\ title_ok /\ content = <<>>
    \/ entry = "create_nested_blocks" /\ content = <<>>

C14_EmptyOutlineSucceeds ==
    (pc = "done" /\ EmptyInput) =>
        /\ result.success
        /\ result.has_created
        /\ result.created_uids = <<>>
        /\ ~touched

\* C14 amended: create_nested_blocks answers an empty blocks_data with
\* success = true and an empty created_uids, without a store call;
\* create_outline rejects an empty outline, without a store call; create_page
\* without content resolves the page through the store and, when that
\* succeeds, returns success = true without a created_uids list. None of
\* them submits a write.
C14_EmptyInputResults ==
    (pc = "done" /\ EmptyInput) =>
        /\ log = <<>>
        /\ entry = "create_nested_blocks" =>
               (result.success /\ result.has_created /\ result.created_uids = <<>>
                /\ ~touched)
        /\ entry = "create_outline" =>
               (~result.success /\ result.has_error /\ ~touched)
        /\ entry = "create_page" =>
               (touched /\ ~result.has_created /\ (result.success <=> ~result.has_error))

\* create_nested_blocks has returned for an empty blocks_data
C14_Witness ==
    /\ pc = "done"
    /\ entry = "create_nested_blocks"
    /\ content = <<>>
    /\ result.success

\* C15: within a batch the requests are in the order of their nodes in the
\* flattened input: two nodes of equal depth are never reordered.
C15_BucketKeepsInputOrder ==
    entry \in BatchEntries =>
        \A i \in 1..Len(log) :
            \A a \in 1..Len(log[i].reqs) : \A b \in 1..Len(log[i].reqs) :
                a < b => log[i].reqs[a].node < log[i].reqs[b].node

\* the sort moved a node of a lower depth from between two nodes of one bucket
C15_Witness ==
    /\ entry = "import_markdown"
    /\ Len(outline) = 3
    /\ outline[2].level < outline[1].level
    /\ \E i \in 1..Len(log) :
           /\ Len(log[i].reqs) = 2
           /\ log[i].reqs[1].node = 1
           /\ log[i].reqs[2].node = 3

\* C16: when an answer lists fewer identifiers than the batch has requests,
\* what is recorded for the batch is all of its local identifiers.
RecordedWithFallback(e) ==
    IF e.resp.kind = "ids" /\ Len(e.resp.ids) < Len(e.reqs) THEN ReqUids(e)
    ELSE IF e.resp.kind = "ids" THEN e.resp.ids
    ELSE IF e.resp.kind = "ok" THEN ReqUids(e)
    ELSE <<>>

RECURSIVE ConcatWithFallback(_, _)
ConcatWithFallback(lg, n) ==
    IF n = 0 THEN <<>> ELSE ConcatWithFallback(lg, n - 1) \o RecordedWithFallback(lg[n])

C16_PartialIdsFallBackToLocal ==
    entry \in BatchEntries => created_uids = ConcatWithFallback(log, Len(log))

\* C17: two calls on different parents whose steps interleave: the table,
\* the created_uids and the requests of each are what the call alone would
\* hold for its own outline and its own answers, and no request names as
\* parent the root or an identifier of the other call.
RECURSIVE AloneTable(_, _)
AloneTable(c, n) ==
    IF n = 0 THEN [l \in {Sentinel} |-> RootOf(c)]
    ELSE TableAfterAnswer(calls[c].entry, calls[c].log[n].level, AloneTable(c, n - 1),
                          ReqUids(calls[c].log[n]))

\* the batches of caller c whose answer has been processed
AnsweredCount(c) ==
    Cardinality({ i \in 1..Len(calls[c].log) :
                    calls[c].log[i].resp.kind \notin {"pending", "raise"} })

\* the identifiers caller c generated or was handed by the store, and its root
IdsOf(c) ==
    {RootOf(c)} \cup Range(calls[c].created_uids)
    \cup UNION { Range(ReqUids(calls[c].log[i])) : i \in 1..Len(calls[c].log) }

C17_CallsShareNoState ==
    calls # NoCalls =>
        \A c \in Callers :
            LET me == calls[c]
            IN  /\ me.pc # "start" => me.table = AloneTable(c, AnsweredCount(c))
                /\ me.created_uids = ConcatAppended(me.log, Len(me.log))
                /\ \A i \in 1..Len(me.log) :
                       /\ me.log[i].level = me.levels[i]
                       /\ Len(me.log[i].reqs) = Len(me.level_items[me.log[i].level])
                       /\ \A k \in 1..Len(me.log[i].reqs) :
                              /\ me.log[i].reqs[k].node = me.level_items[me.log[i].level][k].node
                              /\ me.log[i].reqs[k].parent =
                                     ParentFor(me.entry, me.log[i].level, AloneTable(c, i - 1),
                                               RootOf(c), me.level_items)
                              /\ \A d \in Callers \ {c} :
                                     me.log[i].reqs[k].parent \notin IdsOf(d)

\* both calls have submitted a second batch under a block of their own, and
\* the first batch of caller 2 was built between the two batches of caller 1
C17_Witness ==
    /\ calls # NoCalls
    /\ \A c \in Callers :
           /\ Len(calls[c].log) = 2
           /\ calls[c].log[2].reqs[1].parent = calls[c].log[1].reqs[1].uid
    /\ calls[1].log[1].reqs[1].uid.n < calls[2].log[1].reqs[1].uid.n
    /\ calls[2].log[1].reqs[1].uid.n < calls[1].log[2].reqs[1].uid.n

\* C19: in import_markdown, once the batch of depth d is built the table maps
\* d to the last local identifier of the bucket, and every request of depth
\* d+1 names it as parent.
C19_ImportTableHoldsLastUid ==
    entry = "import_markdown" =>
        \A i \in 1..Len(log) :
            LET last == log[i].reqs[Len(log[i].reqs)].uid
            IN  /\ log[i].level \in DOMAIN table
                /\ table[log[i].level] = last
                /\ \A j \in 1..Len(log) :
                       log[j].level = log[i].level + 1 =>
                           \A k \in 1..Len(log[j].reqs) : log[j].reqs[k].parent = last

\* C20 as written: every creation request carries the position 'last'.
C20_AlwaysLast ==
    \A i \in 1..Len(log) :
        \A k \in 1..Len(log[i].reqs) : log[i].reqs[k].order = "last"

\* C20 amended: every creation request carries 'last', except the depth-0
\* requests of import_markdown, which carry its order argument, 'first' or
\* 'last'.
C20_LastExceptImportTop ==
    \A i \in 1..Len(log) :
        \A k \in 1..Len(log[i].reqs) :
            IF entry = "import_markdown" /\ log[i].level = 0
            THEN log[i].reqs[k].order = order /\ order \in {"first", "last"}
            ELSE log[i].reqs[k].order = "last"

\* import_markdown with order 'first' has submitted depth 0 and depth 1
C20_Witness ==
    /\ entry = "import_markdown"
    /\ order = "first"
    /\ \E i \in 1..Len(log) : log[i].level = 0 /\ log[i].reqs[1].order = "first"
    /\ \E i \in 1..Len(log) : log[i].level = 1 /\ log[i].reqs[1].order = "last"

\* C21: a creation request carries the heading rank of its node if and only
\* if that rank is 1, 2 or 3, in every entry point.
C21_HeadingIffInRange ==
    \A i \in 1..Len(log) :
        \A k \in 1..Len(log[i].reqs) :
            LET r == log[i].reqs[k]
            IN  /\ r.has_heading <=> r.rank \in 1..MaxHeading
                /\ r.has_heading => r.heading = r.rank

\* C22: the flattening of create_page emits one item per node of the nested
\* content, in pre-order, with the node's explicit level or else the resolved
\* depth of its parent plus 1 (0 at the top); after validation none is negative.
\* A node is named by its path: its index at the top, then among the children.
RECURSIVE Paths(_)
Paths(nodes) ==
    UNION { {<<i>>} \cup { <<i>> \o q : q \in Paths(nodes[i].children) } : i \in 1..Len(nodes) }

RECURSIVE NodeAt(_, _)
NodeAt(nodes, p) ==
    IF Len(p) = 1 THEN nodes[p[1]] ELSE NodeAt(nodes[p[1]].children, Tail(p))

RECURSIVE DepthAt(_, _)
DepthAt(nodes, p) ==
    IF NodeAt(nodes, p).has_level THEN NodeAt(nodes, p).level
    ELSE IF Len(p) = 1 THEN 0
    ELSE DepthAt(nodes, Front(p)) + 1

\* p comes before q in pre-order: p is an ancestor of q, or branches off to the left
PathBefore(p, q) ==
    \/ Len(p) < Len(q) /\ SubSeq(q, 1, Len(p)) = p
    \/ \E k \in 1..Len(p) :
           /\ k <= Len(q)
           /\ SubSeq(p, 1, k - 1) = SubSeq(q, 1, k - 1)
           /\ p[k] < q[k]

PreOrderRank(nodes, p) == Cardinality({ q \in Paths(nodes) : PathBefore(q, p) }) + 1

C22_FlattenIsPreOrder ==
    (entry = "create_page" /\ items # <<>>) =>
        /\ Len(items) = Cardinality(Paths(content))
        /\ \A p \in Paths(content) :
               \E i \in 1..Len(items) :
                   /\ items[i].node = PreOrderRank(content, p)
                   /\ items[i].level = DepthAt(content, p)
                   /\ items[i].text = NodeAt(content, p).text
                   /\ items[i].level >= 0

\* a child that names a level of its own, followed by a second top-level node
C22_Witness ==
    /\ entry = "create_page"
    /\ pc = "loop"
    /\ Len(content) = 2
    /\ Len(content[1].children) = 1
    /\ content[1].children[1].has_level
    /\ content[1].children[1].level = 0
    /\ Len(items) = 3

\* C23: when every batch succeeds and the store returns no identifiers, the
\* returned created_uids holds one identifier per node, by ascending depth
\* and by emission order within a depth, each the identifier of the node's
\* creation request.
AllPlainSuccess ==
    /\ pc = "done"
    /\ result.success
    /\ log # <<>>
    /\ \A i \in 1..Len(log) : log[i].resp.kind = "ok"

\* the place of item x when the items are put by depth, then by emission
PlaceOf(x) ==
    Cardinality({ y \in Range(items) :
                    y.level < x.level \/ (y.level = x.level /\ y.node < x.node) }) + 1

C23_CreatedUidsByDepth ==
    (entry \in BatchEntries /\ AllPlainSuccess) =>
        /\ result.has_created
        /\ Len(result.created_uids) = Len(items)
        /\ \A x \in Range(items) :
               \E i \in 1..Len(log) : \E k \in 1..Len(log[i].reqs) :
                   /\ log[i].level = x.level
                   /\ log[i].reqs[k].node = x.node
                   /\ result.created_uids[PlaceOf(x)] = log[i].reqs[k].uid

\* create_outline has returned three identifiers for an outline whose first
\* item is deeper than its last
C23_Witness ==
    /\ entry = "create_outline"
    /\ AllPlainSuccess
    /\ Len(outline) = 3
    /\ outline[1].level > outline[3].level
    /\ outline[2].level = outline[1].level
    /\ Len(result.created_uids) = 3

\* C24: between the submissions of two consecutive batches of a call the
\* settle wait takes place: when a batch is submitted, the wait after every
\* earlier batch has completed.
C24_SettleBetweenBatches ==
    entry \in BatchEntries =>
        \A i \in 1..Len(log) : i < Len(log) => log[i].settled

\* a second batch has been submitted after a first one the store refused
C24_Witness ==
    /\ entry \in BatchEntries
    /\ Len(log) = 2
    /\ log[1].resp.kind = "fail"
    /\ log[1].settled
    /\ pc = "inflight"

\* C25: when create_outline or import_markdown is given the uid of a parent
\* block the store does not hold, the call returns success = false with a
\* 'not found' error and has created nothing in the store, no block and no
\* page.
C25_NotFoundCreatesNothing ==
    (pc = "done" /\ result.why = "not_found") =>
        /\ ~result.success
        /\ result.has_error
        /\ log = <<>>
        /\ storeCreated = {}
        /\ ~pageCreated

\* C26: in create_nested_blocks the recursive call for a block's children
\* starts from a table of its own that holds the block as root, and the
\* caller's table after the block differs from its table before the block
\* only in the entry of the block's level.
\* the write of the block invocation k is at, or was at last
OwnEntry(k) ==
    CHOOSE i \in 1..Len(log) :
        log[i].depth = k /\ \A j \in (i + 1)..Len(log) : log[j].depth # k

\* invocation k has recorded its block: it is in the recursion for the
\* children, or past it
HasRecorded(k) == k < Len(stack) \/ pc = "nb_sleep"

C26_RecursionHasOwnTable ==
    entry = "create_nested_blocks" =>
        /\ \A k \in 1..Len(stack) :
               HasRecorded(k) =>
                   LET e == log[OwnEntry(k)]
                       t == stack[k].table
                   IN  /\ DOMAIN t = DOMAIN e.table \cup {e.level}
                       /\ t[e.level] = e.reqs[1].uid
                       /\ \A l \in DOMAIN e.table \ {e.level} : t[l] = e.table[l]
        /\ \A k \in 2..Len(stack) :
               \A j \in (OwnEntry(k - 1) + 1)..Len(log) :
                   (log[j].depth = k /\ \A h \in (OwnEntry(k - 1) + 1)..(j - 1) : log[h].depth # k)
                       => log[j].table = [l \in {Sentinel} |-> log[OwnEntry(k - 1)].reqs[1].uid]

\* the children of the second block have been created at the level of the
\* caller's blocks, and the call for them has returned
C26_Witness ==
    /\ entry = "create_nested_blocks"
    /\ pc = "nb_sleep"
    /\ Len(stack) = 1
    /\ Len(log) = 3
    /\ log[1].depth = 1 /\ log[1].resp.kind = "ok" /\ log[1].level = 0
    /\ log[2].depth = 1 /\ log[2].resp.kind = "ok" /\ log[2].level = 1
    /\ log[3].depth = 2 /\ log[3].resp.kind = "ok" /\ log[3].level = 0

\* C27: create_nested_blocks writes one block at a time in input order; a
\* block at level L is requested under the most recent block of level L-1
\* created earlier in the same invocation, or under parent_uid when there is
\* none; the children of a block whose write failed are not created.
\* writes j and i belong to one invocation
SameInvocation(j, i) ==
    /\ j < i
    /\ log[j].depth = log[i].depth
    /\ \A h \in (j + 1)..(i - 1) : log[h].depth >= log[i].depth

\* parent_uid of the invocation write i belongs to
InvocationParent(i) ==
    IF log[i].depth = 1 THEN RootUid
    ELSE LET h == CHOOSE h \in 1..(i - 1) :
                      /\ log[h].depth = log[i].depth - 1
                      /\ \A g \in (h + 1)..(i - 1) : log[g].depth >= log[i].depth
         IN  log[h].reqs[1].uid

\* the blocks of level l created in the invocation before write i
CreatedAtLevel(i, l) ==
    { j \in 1..(i - 1) : SameInvocation(j, i) /\ log[j].resp.kind = "ok" /\ log[j].level = l }

MaxOf(S) == CHOOSE x \in S : \A y \in S : y <= x

\* the most recent block of level l created in the invocation before write
\* i, or parent_uid
LastCreatedAt(i, l) ==
    IF CreatedAtLevel(i, l) = {} THEN InvocationParent(i)
    ELSE log[MaxOf(CreatedAtLevel(i, l))].reqs[1].uid

\* one write per block, in input order, and none for the children of a
\* block whose write failed
OneBlockAtATime ==
    \A i \in 1..Len(log) :
        /\ Len(log[i].reqs) = 1
        /\ \A j \in 1..(i - 1) :
               SameInvocation(j, i) => log[j].reqs[1].node < log[i].reqs[1].node
        /\ (i < Len(log) /\ log[i].resp.kind = "fail") => log[i + 1].depth <= log[i].depth

C27_ParentIsLastCreatedAbove ==
    entry = "create_nested_blocks" =>
        /\ OneBlockAtATime
        /\ \A i \in 1..Len(log) :
               log[i].reqs[1].parent = LastCreatedAt(i, log[i].level - 1)

\* C28: the entry of the parent table at the sentinel depth -1 is the root
\* parent of the call at all times, and every node of depth 0 is requested
\* under the root.
C28_SentinelEntryIsRoot ==
    /\ (entry \in BatchEntries /\ table # EmptyTable) =>
           (Sentinel \in DOMAIN table /\ table[Sentinel] = RootUid)
    /\ \A k \in 1..Len(stack) :
           Sentinel \in DOMAIN stack[k].table /\ stack[k].table[Sentinel] = stack[k].parent
    /\ \A i \in 1..Len(log) :
           log[i].level = 0 =>
               \A r \in 1..Len(log[i].reqs) :
                   log[i].reqs[r].parent =
                       (IF entry = "create_nested_blocks" THEN InvocationParent(i) ELSE RootUid)

====
